---- MODULE Spec2Model ----
(***************************************************************************)
(* Model of site/theme/js/header.js: the header script of the site theme.  *)
(* One immediately-invoked function binds the mobile navigation, the       *)
(* submenu toggles and the sticky header to the elements it finds in the   *)
(* page; afterwards the browser delivers events to the installed           *)
(* listeners, one at a time.                                               *)
(*                                                                         *)
(* The page markup is not part of the script.  It is modelled as the       *)
(* record "document" (which of the looked-up elements exist) and a menu    *)
(* tree of menu items.  Menu items are numbered in document order; in each *)
(* menu item the link comes first, then the item's own toggle, then the    *)
(* nested list, so toggles are numbered in document order as well.         *)
(***************************************************************************)
EXTENDS Integers, FiniteSets, Sequences, TLC

VARIABLES
    pc,               \* position of the script: the block it runs next
    document,         \* the page: which elements the selectors find
    listeners,        \* listeners installed on single elements / document / window
    toggleListeners,  \* toggles that carry the click listener of line 47
    linkListeners,    \* menu items whose parent link carries the listener of line 71
    bodyClass,        \* document.body.classList
    openAria,         \* aria-expanded of the open trigger
    expanded,         \* menu items carrying mnav__menu__item--expanded
    toggleAria,       \* aria-expanded of every toggle
    pageYOffset,      \* window.pageYOffset
    scrollPending,    \* a scroll event is queued for the current offset
    headerClass,      \* classList of the .header--sticky element
    styleHeight,      \* headerSticky.style.height
    headerStickyProp, \* cached bounding box height (NoRect before line 91)
    measured,         \* number of getBoundingClientRect calls so far
    lastOpen          \* history: the most recent mobile-nav event was an open click

vars == <<pc, document, listeners, toggleListeners, linkListeners, bodyClass,
          openAria, expanded, toggleAria, pageYOffset, scrollPending,
          headerClass, styleHeight, headerStickyProp, measured, lastOpen>>

navVars == <<bodyClass, openAria>>
menuVars == <<expanded, toggleAria>>
stickyVars == <<headerClass, styleHeight, headerStickyProp, measured>>
bindVars == <<listeners, toggleListeners, linkListeners>>

----------------------------------------------------------------------------
\* Bounds of the model

MaxScroll == 2        \* scroll offsets 0..MaxScroll
MaxHeight == 1        \* natural header heights 1..MaxHeight

----------------------------------------------------------------------------
\* Class names and attribute values used by the script

MnavActive == "mnav-active"
StickyActive == "header--sticky-active"
StickyInactive == "header--sticky-inactive"
Placeholder == "javascript:;"

NoRect == -1          \* headerStickyProp before it is assigned
NoStyle == <<>>       \* style.height = ''
Px(h) == <<h, "px">>  \* h + 'px'

----------------------------------------------------------------------------
\* The menu markup: a tree of menu items (0 is the root list, not an item)
\*
\*   1  parent link javascript:;   toggle 1
\*      2  parent link javascript:;   toggle 2
\*         3  link /page              toggle 3
\*      4  parent link /page          toggle 4
\*   5  parent link javascript:;   (no toggle of its own)
\*      6  parent link javascript:;   toggle 5
\*   toggle 6 stands outside every menu item

MenuItems == {1, 2, 3, 4, 5, 6}

\* the menu item whose nested list holds item i; 0 for the root list
ParentItem == [i \in MenuItems |->
                 CASE i = 2 -> 1 [] i = 3 -> 2 [] i = 4 -> 1 [] i = 6 -> 5
                   [] OTHER -> 0]

MenuToggles == {1, 2, 3, 4, 5, 6}

\* toggle.closest('.mnav__menu__item'); 0 is null
Closest == [t \in MenuToggles |->
              CASE t = 5 -> 6 [] t = 6 -> 0 [] OTHER -> t]

\* items matching '.mnav__menu__item--parent > .mnav__menu__link', with href
ParentLinkItems == {1, 2, 4, 5, 6}
LinkHref == [i \in MenuItems |->
               IF i \in {1, 2, 5, 6} THEN Placeholder ELSE "/page"]

----------------------------------------------------------------------------
\* DOM queries

\* mnavOpen, mnavClose, mnavOverlay: TRUE when querySelector found the element
mnavOpen == document.open
mnavClose == document.close
mnavOverlay == document.overlay

\* document.querySelectorAll('.mnav__menu__toggle')
mnavToggles == IF document.toggles THEN MenuToggles ELSE {}

\* document.querySelectorAll('.mnav__menu__item--parent > .mnav__menu__link')
mnavParentLinks == IF document.links THEN ParentLinkItems ELSE {}

headerStickyElement == document.stickyElement
headerSticky == document.headerSticky

\* j is a descendant of the list element of menu item a (a = 0: the root list)
RECURSIVE Inside(_, _)
Inside(j, a) ==
    IF j = 0 THEN FALSE
    ELSE IF ParentItem[j] = a THEN TRUE
    ELSE Inside(ParentItem[j], a)

Min(S) == CHOOSE x \in S : \A y \in S : x <= y
Max(S) == CHOOSE x \in S : \A y \in S : x >= y

\* variant of QueryToggle: the last matching toggle instead of the first
QueryToggleLast(item) ==
    LET found == {t \in mnavToggles :
                    /\ Closest[t] # 0
                    /\ (Closest[t] = item \/ Inside(Closest[t], item))}
    IN  IF found = {} THEN 0 ELSE Max(found)

\* item.querySelector('.mnav__menu__toggle'): the first toggle, in document
\* order, among the descendants of the item; 0 is null
QueryToggle(item) ==
    LET found == {t \in mnavToggles :
                    /\ Closest[t] # 0
                    /\ (Closest[t] = item \/ Inside(Closest[t], item))}
    IN  IF found = {} THEN 0 ELSE Min(found)

\* item.parentElement.querySelectorAll('.mnav__menu__item--expanded')
QueryExpanded(item, exp) == {s \in exp : Inside(s, ParentItem[item])}

\* headerSticky.getBoundingClientRect().height: the inline height when one is
\* set, the natural height of the header otherwise
BoundingHeight(style) == IF style # NoStyle THEN style[1] ELSE document.height

----------------------------------------------------------------------------
\* Handlers as functions of the state they read

\* variant of ToggleHandler: the other expanded items are left alone
ToggleHandlerNoCollapse(t, exp, aria) ==
    LET item == Closest[t] IN
    IF item = 0 THEN [expanded |-> exp, aria |-> aria]
    ELSE
      LET isExpanded == item \notin exp
          exp2 == IF isExpanded THEN exp \cup {item} ELSE exp \ {item}
      IN  [expanded |-> exp2,
           aria |-> [aria EXCEPT
                       ![t] = IF isExpanded THEN "true" ELSE "false"]]

\* variant of ToggleHandler: the class is added, never removed
ToggleHandlerAlwaysExpand(t, exp, aria) ==
    LET item == Closest[t] IN
    IF item = 0 THEN [expanded |-> exp, aria |-> aria]
    ELSE
      LET siblings == QueryExpanded(item, exp)
          others == siblings \ {item}
          siblingToggles == {QueryToggle(s) : s \in others} \ {0}
          exp1 == exp \ others
          aria1 == [x \in MenuToggles |->
                      IF x \in siblingToggles THEN "false" ELSE aria[x]]
      IN  [expanded |-> exp1 \cup {item},
           aria |-> [aria1 EXCEPT ![t] = "true"]]

\* lines 47-65: click listener of toggle t
ToggleHandler(t, exp, aria) ==
    LET item == Closest[t] IN
    IF item = 0 THEN [expanded |-> exp, aria |-> aria]
    ELSE
      LET siblings == QueryExpanded(item, exp)
          others == siblings \ {item}
          siblingToggles == {QueryToggle(s) : s \in others} \ {0}
          exp1 == exp \ others
          aria1 == [x \in MenuToggles |->
                      IF x \in siblingToggles THEN "false" ELSE aria[x]]
          isExpanded == item \notin exp1
          exp2 == IF isExpanded THEN exp1 \cup {item} ELSE exp1 \ {item}
      IN  [expanded |-> exp2,
           aria |-> [aria1 EXCEPT
                       ![t] = IF isExpanded THEN "true" ELSE "false"]]

\* variant of LinkHandler: the link toggles its item itself instead of
\* clicking the toggle
LinkHandlerInline(i, exp, aria) ==
    LET toggle == QueryToggle(i)
        isExpanded == i \notin exp
    IN  IF toggle # 0
        THEN [expanded |-> IF isExpanded THEN exp \cup {i} ELSE exp \ {i},
              aria |-> [aria EXCEPT
                          ![toggle] = IF isExpanded THEN "true" ELSE "false"]]
        ELSE [expanded |-> exp, aria |-> aria]

\* lines 71-76: click listener of the parent link of menu item i
LinkHandler(i, exp, aria) ==
    LET item == i
        toggle == IF item # 0 THEN QueryToggle(item) ELSE 0
    IN  IF toggle # 0 /\ toggle \in toggleListeners
        THEN ToggleHandler(toggle, exp, aria)
        ELSE [expanded |-> exp, aria |-> aria]

\* variant of handleStickyHeader: sticky from the cached height on (>=)
handleStickyHeaderAtOrAbove(offset, prop, cls, style) ==
    IF offset >= prop
    THEN [class |-> (cls \cup {StickyActive}) \ {StickyInactive},
          style |-> Px(prop)]
    ELSE [class |-> (IF StickyActive \in cls
                     THEN cls \cup {StickyInactive} ELSE cls) \ {StickyActive},
          style |-> NoStyle]

\* variant of handleStickyHeader: sticky-active is removed before it is tested
handleStickyHeaderRemoveFirst(offset, prop, cls, style) ==
    IF offset > prop
    THEN [class |-> (cls \cup {StickyActive}) \ {StickyInactive},
          style |-> Px(prop)]
    ELSE [class |-> cls \ {StickyActive}, style |-> NoStyle]

\* variant of handleStickyHeader: sticky-inactive is dropped again by a run at
\* or below the cached height that finds no sticky-active
handleStickyHeaderTransient(offset, prop, cls, style) ==
    IF offset > prop
    THEN [class |-> (cls \cup {StickyActive}) \ {StickyInactive},
          style |-> Px(prop)]
    ELSE [class |-> (IF StickyActive \in cls
                     THEN cls \cup {StickyInactive}
                     ELSE cls \ {StickyInactive}) \ {StickyActive},
          style |-> NoStyle]

\* variant of handleStickyHeader: sticky-inactive is added without the test
handleStickyHeaderAlwaysInactive(offset, prop, cls, style) ==
    IF offset > prop
    THEN [class |-> (cls \cup {StickyActive}) \ {StickyInactive},
          style |-> Px(prop)]
    ELSE [class |-> (cls \cup {StickyInactive}) \ {StickyActive},
          style |-> NoStyle]

\* lines 93-107
handleStickyHeader(offset, prop, cls, style) ==
    IF offset > prop
    THEN [class |-> (cls \cup {StickyActive}) \ {StickyInactive},
          style |-> Px(prop)]
    ELSE [class |-> (IF StickyActive \in cls
                     THEN cls \cup {StickyInactive} ELSE cls) \ {StickyActive},
          style |-> NoStyle]

\* lines 17-20, as a function of the body classes and the trigger attribute
OpenedNav(cls, aria) ==
    [class |-> cls \cup {MnavActive},
     aria |-> IF mnavOpen THEN "true" ELSE aria]

\* lines 22-25, as a function of the body classes and the trigger attribute
ClosedNav(cls, aria) ==
    [class |-> cls \ {MnavActive},
     aria |-> IF mnavOpen THEN "false" ELSE aria]

\* lines 82-84: what the keydown listener does for a key
KeydownResult(key, cls, aria) ==
    IF key = "Escape" /\ MnavActive \in cls
    THEN ClosedNav(cls, aria)
    ELSE [class |-> cls, aria |-> aria]

\* lines 17-20
openMobileNav ==
    /\ bodyClass' = OpenedNav(bodyClass, openAria).class
    /\ openAria' = OpenedNav(bodyClass, openAria).aria

\* variant of closeMobileNav: the attribute is reset, the class is kept
closeMobileNavAriaOnly ==
    /\ bodyClass' = bodyClass
    /\ openAria' = IF mnavOpen THEN "false" ELSE openAria

\* variant of closeMobileNav: the class is removed, the attribute is kept
closeMobileNavClassOnly ==
    /\ bodyClass' = bodyClass \ {MnavActive}
    /\ openAria' = openAria

\* lines 22-25
closeMobileNav ==
    /\ bodyClass' = ClosedNav(bodyClass, openAria).class
    /\ openAria' = ClosedNav(bodyClass, openAria).aria

----------------------------------------------------------------------------
\* The page before the script runs

Documents ==
    [open : BOOLEAN, close : BOOLEAN, overlay : BOOLEAN, toggles : BOOLEAN,
     links : BOOLEAN, stickyElement : BOOLEAN, headerSticky : BOOLEAN,
     height : 1..MaxHeight]

Init ==
    /\ pc = "mobileNav"
    /\ document \in Documents
    /\ listeners = {}
    /\ toggleListeners = {}
    /\ linkListeners = {}
    /\ bodyClass = {}
    /\ openAria = "false"
    /\ expanded = {}
    /\ toggleAria = [t \in MenuToggles |-> "false"]
    /\ pageYOffset \in 0..MaxScroll
    /\ scrollPending = FALSE
    /\ headerClass = {}
    /\ styleHeight = NoStyle
    /\ headerStickyProp = NoRect
    /\ measured = 0
    /\ lastOpen = FALSE

----------------------------------------------------------------------------
\* The script, block by block

\* variant of BindMobileNav: the close and overlay listeners are bound inside
\* the block guarded by the open trigger
BindMobileNavNested ==
    /\ pc = "mobileNav"
    /\ listeners' = listeners
                      \cup (IF mnavOpen THEN {"mnavOpen"} ELSE {})
                      \cup (IF mnavOpen /\ mnavClose THEN {"mnavClose"} ELSE {})
                      \cup (IF mnavOpen /\ mnavOverlay THEN {"mnavOverlay"}
                            ELSE {})
    /\ pc' = "submenu"
    /\ UNCHANGED <<document, toggleListeners, linkListeners, navVars, menuVars,
                   pageYOffset, scrollPending, stickyVars, lastOpen>>

\* lines 27-43
BindMobileNav ==
    /\ pc = "mobileNav"
    /\ listeners' = listeners
                      \cup (IF mnavOpen THEN {"mnavOpen"} ELSE {})
                      \cup (IF mnavClose THEN {"mnavClose"} ELSE {})
                      \cup (IF mnavOverlay THEN {"mnavOverlay"} ELSE {})
    /\ pc' = "submenu"
    /\ UNCHANGED <<document, toggleListeners, linkListeners, navVars, menuVars,
                   pageYOffset, scrollPending, stickyVars, lastOpen>>

\* lines 46-78
BindSubmenu ==
    /\ pc = "submenu"
    /\ toggleListeners' = mnavToggles
    /\ linkListeners' = {i \in mnavParentLinks : LinkHref[i] = Placeholder}
    /\ pc' = "keydown"
    /\ UNCHANGED <<document, listeners, navVars, menuVars, pageYOffset,
                   scrollPending, stickyVars, lastOpen>>

\* lines 81-85
BindKeydown ==
    /\ pc = "keydown"
    /\ listeners' = listeners \cup {"keydown"}
    /\ pc' = "sticky"
    /\ UNCHANGED <<document, toggleListeners, linkListeners, navVars, menuVars,
                   pageYOffset, scrollPending, stickyVars, lastOpen>>

\* variant of InitSticky: the block is guarded by the header element instead
\* of the marker element
InitStickyByHeader ==
    /\ pc = "sticky"
    /\ IF ~headerSticky
       THEN /\ pc' = IF headerStickyElement THEN "error" ELSE "done"
            /\ UNCHANGED <<listeners, stickyVars>>
       ELSE LET prop == BoundingHeight(styleHeight)
                r == handleStickyHeader(pageYOffset, prop, headerClass,
                                        styleHeight)
            IN  /\ headerStickyProp' = prop
                /\ measured' = measured + 1
                /\ listeners' = listeners \cup {"resize", "scroll", "load"}
                /\ headerClass' = r.class
                /\ styleHeight' = r.style
                /\ pc' = "done"
    /\ UNCHANGED <<document, toggleListeners, linkListeners, navVars, menuVars,
                   pageYOffset, scrollPending, lastOpen>>

\* lines 88-116; headerSticky.getBoundingClientRect() throws a TypeError when
\* headerSticky is null, which ends the script
InitSticky ==
    /\ pc = "sticky"
    /\ IF ~headerStickyElement
       THEN /\ pc' = "done"
            /\ UNCHANGED <<listeners, stickyVars>>
       ELSE IF ~headerSticky
       THEN /\ pc' = "error"
            /\ UNCHANGED <<listeners, stickyVars>>
       ELSE LET prop == BoundingHeight(styleHeight)
                r == handleStickyHeader(pageYOffset, prop, headerClass,
                                        styleHeight)
            IN  /\ headerStickyProp' = prop
                /\ measured' = measured + 1
                /\ listeners' = listeners \cup {"resize", "scroll", "load"}
                /\ headerClass' = r.class
                /\ styleHeight' = r.style
                /\ pc' = "done"
    /\ UNCHANGED <<document, toggleListeners, linkListeners, navVars, menuVars,
                   pageYOffset, scrollPending, lastOpen>>

\* the script has run to its end or has been ended by an exception
Finished == pc \in {"done", "error"}

----------------------------------------------------------------------------
\* Events delivered to the installed listeners once the script has ended

Keys == {"Escape", "Enter", "Tab"}

\* lines 28-31
OpenClick ==
    /\ Finished
    /\ mnavOpen /\ "mnavOpen" \in listeners
    /\ openMobileNav
    /\ lastOpen' = TRUE
    /\ UNCHANGED <<pc, document, bindVars, menuVars, pageYOffset,
                   scrollPending, stickyVars>>

\* lines 35-38
CloseClick ==
    /\ Finished
    /\ mnavClose /\ "mnavClose" \in listeners
    /\ closeMobileNav
    /\ lastOpen' = FALSE
    /\ UNCHANGED <<pc, document, bindVars, menuVars, pageYOffset,
                   scrollPending, stickyVars>>

\* variant of OverlayClick: closing the mobile nav also collapses the submenus
OverlayClickCollapses ==
    /\ Finished
    /\ mnavOverlay /\ "mnavOverlay" \in listeners
    /\ closeMobileNav
    /\ lastOpen' = FALSE
    /\ expanded' = {}
    /\ toggleAria' = [t \in MenuToggles |-> "false"]
    /\ UNCHANGED <<pc, document, bindVars, pageYOffset, scrollPending,
                   stickyVars>>

\* line 42
OverlayClick ==
    /\ Finished
    /\ mnavOverlay /\ "mnavOverlay" \in listeners
    /\ closeMobileNav
    /\ lastOpen' = FALSE
    /\ UNCHANGED <<pc, document, bindVars, menuVars, pageYOffset,
                   scrollPending, stickyVars>>

\* variant of Keydown: every key closes the open mobile nav
KeydownAnyKey(key) ==
    /\ Finished
    /\ "keydown" \in listeners
    /\ IF MnavActive \in bodyClass
       THEN closeMobileNav
       ELSE UNCHANGED navVars
    /\ lastOpen' = IF key = "Escape" THEN FALSE ELSE lastOpen
    /\ UNCHANGED <<pc, document, bindVars, menuVars, pageYOffset,
                   scrollPending, stickyVars>>

\* lines 81-85
Keydown(key) ==
    /\ Finished
    /\ "keydown" \in listeners
    /\ bodyClass' = KeydownResult(key, bodyClass, openAria).class
    /\ openAria' = KeydownResult(key, bodyClass, openAria).aria
    /\ lastOpen' = IF key = "Escape" THEN FALSE ELSE lastOpen
    /\ UNCHANGED <<pc, document, bindVars, menuVars, pageYOffset,
                   scrollPending, stickyVars>>

\* lines 47-65: a click on toggle t
ToggleClick(t) ==
    /\ Finished
    /\ t \in mnavToggles /\ t \in toggleListeners
    /\ LET r == ToggleHandler(t, expanded, toggleAria)
       IN  /\ expanded' = r.expanded
           /\ toggleAria' = r.aria
    /\ UNCHANGED <<pc, document, bindVars, navVars, pageYOffset,
                   scrollPending, stickyVars, lastOpen>>

\* lines 71-76: a click on the parent link of menu item i
ParentLinkClick(i) ==
    /\ Finished
    /\ i \in mnavParentLinks /\ i \in linkListeners
    /\ LET r == LinkHandler(i, expanded, toggleAria)
       IN  /\ expanded' = r.expanded
           /\ toggleAria' = r.aria
    /\ UNCHANGED <<pc, document, bindVars, navVars, pageYOffset,
                   scrollPending, stickyVars, lastOpen>>

\* the user scrolls the window; the browser queues a scroll event
Scroll(y) ==
    /\ Finished
    /\ y # pageYOffset
    /\ pageYOffset' = y
    /\ scrollPending' = TRUE
    /\ UNCHANGED <<pc, document, bindVars, navVars, menuVars, stickyVars,
                   lastOpen>>

\* variant of WindowEvent: the handler measures the header on every run
WindowEventRemeasure(eventType) ==
    /\ Finished
    /\ eventType = "scroll" => scrollPending
    /\ scrollPending' = IF eventType = "scroll" THEN FALSE ELSE scrollPending
    /\ IF eventType \in listeners
       THEN LET prop == BoundingHeight(styleHeight)
                r == handleStickyHeader(pageYOffset, prop, headerClass,
                                        styleHeight)
            IN  /\ headerStickyProp' = prop
                /\ measured' = measured + 1
                /\ headerClass' = r.class
                /\ styleHeight' = r.style
       ELSE UNCHANGED <<headerClass, styleHeight, headerStickyProp, measured>>
    /\ UNCHANGED <<pc, document, bindVars, navVars, menuVars, pageYOffset,
                   lastOpen>>

\* lines 110-112: a resize, scroll or load event of the window
WindowEvent(eventType) ==
    /\ Finished
    /\ eventType = "scroll" => scrollPending
    /\ scrollPending' = IF eventType = "scroll" THEN FALSE ELSE scrollPending
    /\ IF eventType \in listeners
       THEN LET r == handleStickyHeader(pageYOffset, headerStickyProp,
                                        headerClass, styleHeight)
            IN  /\ headerClass' = r.class
                /\ styleHeight' = r.style
       ELSE UNCHANGED <<headerClass, styleHeight>>
    /\ UNCHANGED <<pc, document, bindVars, navVars, menuVars, pageYOffset,
                   headerStickyProp, measured, lastOpen>>

Next ==
    \/ BindMobileNav
    \/ BindSubmenu
    \/ BindKeydown
    \/ InitSticky
    \/ OpenClick
    \/ CloseClick
    \/ OverlayClick
    \/ \E key \in Keys : Keydown(key)
    \/ \E t \in MenuToggles : ToggleClick(t)
    \/ \E i \in MenuItems : ParentLinkClick(i)
    \/ \E y \in 0..MaxScroll : Scroll(y)
    \/ \E eventType \in {"resize", "scroll", "load"} : WindowEvent(eventType)

Spec == Init /\ [][Next]_vars

----------------------------------------------------------------------------
\* Properties

\* the sticky header is set up: both elements exist and the script has ended
StickyBound == pc = "done" /\ headerStickyElement /\ headerSticky

\* some run of handleStickyHeader as a listener
HandlerRun == \E e \in {"resize", "scroll", "load"} :
                 e \in listeners /\ WindowEvent(e)

\* C1: after any sequence of open-trigger, close-trigger and overlay clicks and
\* Escape keydowns, the body carries mnav-active iff the most recent of these
\* events was an open-trigger click; nothing else sets the flag.
C1_ActiveIffLastOpen == (MnavActive \in bodyClass) <=> lastOpen

C1_Witness ==
    /\ Finished /\ mnavClose /\ mnavOverlay
    /\ lastOpen /\ MnavActive \in bodyClass

\* C2: among the menu items that are siblings at one nesting level at most
\* one carries the expanded class.
C2_OneExpandedPerLevel ==
    \A p \in MenuItems \cup {0} :
        Cardinality({i \in expanded : ParentItem[i] = p}) <= 1

C2_Witness == 1 \in expanded /\ 4 \in expanded /\ 3 \in expanded

\* C3: the aria-expanded attribute of every toggle is "true" iff the menu item
\* enclosing the toggle carries the expanded class.
C3_AriaMirrorsExpanded ==
    \A t \in mnavToggles :
        (toggleAria[t] = "true") <=> (Closest[t] \in expanded)

C3_Witness ==
    /\ expanded = {1, 4}
    /\ toggleAria[4] = "true" /\ toggleAria[2] = "false"
    /\ toggleAria[3] = "false"

\* the state a run of handleStickyHeader must leave behind
StickyPost ==
    /\ (StickyActive \in headerClass) <=> (pageYOffset > headerStickyProp)
    /\ styleHeight = IF StickyActive \in headerClass
                     THEN Px(headerStickyProp) ELSE NoStyle

\* C4: after initialization and after every run of handleStickyHeader the
\* header carries sticky-active iff the scroll offset is strictly greater than
\* the cached height, and the inline height is the cached height in pixels
\* when sticky-active is present and empty otherwise.
C4_StickyIffAboveHeight ==
    [][(headerStickyElement /\ headerSticky /\ (InitSticky \/ HandlerRun))
         => StickyPost']_vars

C4_Witness ==
    /\ StickyBound /\ ~scrollPending
    /\ pageYOffset = headerStickyProp
    /\ StickyInactive \in headerClass /\ StickyActive \notin headerClass

\* the toggle of menu item i; 0 when the item has none
OwnToggle(i) ==
    LET own == {t \in mnavToggles : Closest[t] = i}
    IN  IF own = {} THEN 0 ELSE CHOOSE t \in own : TRUE

\* C5: for every menu item with a placeholder parent link and a toggle of its
\* own, clicking the link gives the state that clicking the toggle gives.
C5_LinkClickEqualsToggleClick ==
    Finished =>
        \A i \in linkListeners :
            OwnToggle(i) # 0 =>
                LinkHandler(i, expanded, toggleAria)
                    = ToggleHandler(OwnToggle(i), expanded, toggleAria)

C5_Witness ==
    /\ Finished /\ 2 \in linkListeners /\ OwnToggle(2) = 2
    /\ expanded = {3, 4}

\* C6: the script ends without an error for every combination of present and
\* absent elements.
C6_InitNeverFails == pc # "error"

\* C7: every feature whose elements are present has its listener installed
\* and working once the script has ended, whatever else is missing.
C7_PresentFeaturesBound ==
    Finished =>
        /\ mnavOpen => ("mnavOpen" \in listeners /\ ENABLED OpenClick)
        /\ mnavClose => ("mnavClose" \in listeners /\ ENABLED CloseClick)
        /\ mnavOverlay => ("mnavOverlay" \in listeners /\ ENABLED OverlayClick)
        /\ "keydown" \in listeners /\ ENABLED Keydown("Escape")
        /\ \A t \in mnavToggles :
               /\ t \in toggleListeners
               /\ Closest[t] # 0 =>
                      ToggleHandler(t, expanded, toggleAria).expanded # expanded
        /\ \A i \in mnavParentLinks :
               LinkHref[i] = Placeholder =>
                   /\ i \in linkListeners
                   /\ QueryToggle(i) # 0 =>
                          LinkHandler(i, expanded, toggleAria).expanded
                              # expanded

C7_Witness ==
    /\ pc = "error"
    /\ ~mnavOpen /\ mnavClose /\ mnavOverlay
    /\ "mnavClose" \in listeners /\ "mnavOverlay" \in listeners
    /\ expanded # {}

\* C8: an Escape keydown while mnav-active is unset, and a keydown of any
\* other key, change nothing.
C8_KeydownNoEffect ==
    [][\A key \in Keys :
          (Keydown(key) /\ (key # "Escape" \/ MnavActive \notin bodyClass))
            => UNCHANGED <<bodyClass, openAria, expanded, toggleAria,
                           headerClass, styleHeight, headerStickyProp>>]_vars

C8_Witness ==
    /\ Finished /\ MnavActive \in bodyClass /\ openAria = "true"
    /\ expanded # {} /\ StickyActive \in headerClass

\* C9: a run of handleStickyHeader at or below the cached height with
\* sticky-active present leaves sticky-inactive present, sticky-active absent
\* and the inline height cleared; sticky-inactive then stays through runs at
\* or below the cached height and is removed by the next run above it, and by
\* nothing else.
C9_InactiveUntilStickyAgain ==
    [][/\ (HandlerRun /\ pageYOffset <= headerStickyProp
             /\ StickyActive \in headerClass)
          => /\ StickyInactive \in headerClass'
             /\ StickyActive \notin headerClass'
             /\ styleHeight' = NoStyle
       /\ (HandlerRun /\ pageYOffset <= headerStickyProp
             /\ StickyInactive \in headerClass)
          => StickyInactive \in headerClass'
       /\ (HandlerRun /\ pageYOffset > headerStickyProp)
          => StickyInactive \notin headerClass'
       /\ (StickyInactive \in headerClass /\ StickyInactive \notin headerClass')
          => (HandlerRun /\ pageYOffset > headerStickyProp)]_vars

C9_Witness ==
    /\ StickyBound /\ ~scrollPending /\ pageYOffset = 0
    /\ StickyInactive \in headerClass /\ styleHeight = NoStyle

\* C10: the cached height is captured once, as the height the header has
\* before the script writes to it, and no event changes it afterwards.
C10_HeightCachedOnce ==
    StickyBound => (measured = 1 /\ headerStickyProp = document.height)

C10_Witness ==
    /\ StickyBound /\ measured = 1
    /\ StickyActive \in headerClass /\ styleHeight = Px(document.height)
    /\ expanded # {} /\ MnavActive \in bodyClass

\* the menu items at the nesting level of item i (i included)
SameLevel(i) == {j \in MenuItems : ParentItem[j] = ParentItem[i]}

\* C11: clicking the toggle of an expanded item leaves no item expanded among
\* the items of its level; clicking the toggle of a collapsed item leaves
\* exactly that item expanded among the items of its level.
C11_ToggleClickResult ==
    [][\A t \in MenuToggles :
          (ToggleClick(t) /\ Closest[t] # 0) =>
              LET item == Closest[t] IN
              /\ item \in expanded => expanded' \cap SameLevel(item) = {}
              /\ item \notin expanded
                   => expanded' \cap SameLevel(item) = {item}]_vars

C11_Witness ==
    /\ Finished /\ 2 \in toggleListeners
    /\ expanded = {1, 2} /\ toggleAria[4] = "false"

StickyEvents == {"resize", "scroll", "load"}

\* C12: without the sticky marker element no sticky listener is registered and
\* no height is cached, and scrolling and the scroll, resize and load events
\* leave the header, the mobile-nav flag and the submenus unchanged.
C12_NoMarkerNoSticky ==
    [][~headerStickyElement =>
          /\ listeners' \cap StickyEvents = {}
          /\ headerStickyProp' = NoRect /\ measured' = 0
          /\ ((\E e \in StickyEvents : WindowEvent(e))
                \/ (\E y \in 0..MaxScroll : Scroll(y)))
             => UNCHANGED <<headerClass, styleHeight, bodyClass, openAria,
                            expanded, toggleAria>>]_vars

C12_Witness ==
    /\ pc = "done" /\ ~headerStickyElement /\ headerSticky
    /\ pageYOffset > document.height /\ scrollPending
    /\ headerClass = {} /\ styleHeight = NoStyle

\* one delivery of each mobile-nav and sticky trigger gives a state that a
\* second delivery of the same trigger leaves as it is
NavAndStickyIdempotent ==
    /\ LET r == OpenedNav(bodyClass, openAria)
       IN  OpenedNav(r.class, r.aria) = r
    /\ LET r == ClosedNav(bodyClass, openAria)
       IN  ClosedNav(r.class, r.aria) = r
    /\ LET r == KeydownResult("Escape", bodyClass, openAria)
       IN  KeydownResult("Escape", r.class, r.aria) = r
    /\ StickyBound =>
           \A y \in 0..MaxScroll :
               LET r == handleStickyHeader(y, headerStickyProp, headerClass,
                                           styleHeight)
               IN  handleStickyHeader(y, headerStickyProp, r.class, r.style)
                       = r

\* a second click on toggle t gives the state the first click gave
ToggleIdempotent(t) ==
    LET r == ToggleHandler(t, expanded, toggleAria)
    IN  ToggleHandler(t, r.expanded, r.aria) = r

\* a second click on the parent link of item i gives the state the first gave
LinkIdempotent(i) ==
    LET r == LinkHandler(i, expanded, toggleAria)
    IN  LinkHandler(i, r.expanded, r.aria) = r

\* C13 as stated: every operation is idempotent under a repeated identical
\* trigger, the submenu toggle click and the parent-link click included.
C13_AllIdempotent ==
    Finished =>
        /\ NavAndStickyIdempotent
        /\ \A t \in toggleListeners : ToggleIdempotent(t)
        /\ \A i \in linkListeners : LinkIdempotent(i)

\* C13 amended: open-trigger, close-trigger and overlay clicks, Escape
\* keydowns and handleStickyHeader at a given offset are idempotent; a toggle
\* click, or a parent-link click that finds a toggle, on a toggle with an
\* enclosing menu item is not: the second click flips the item back.
C13_IdempotentExceptSubmenu ==
    Finished =>
        /\ NavAndStickyIdempotent
        /\ \A t \in toggleListeners :
               ToggleIdempotent(t) <=> Closest[t] = 0
        /\ \A i \in linkListeners :
               LinkIdempotent(i) <=> QueryToggle(i) = 0

C13_Witness ==
    /\ StickyBound /\ StickyActive \in headerClass
    /\ scrollPending /\ pageYOffset = 0
    /\ MnavActive \in bodyClass /\ 1 \in expanded
    /\ toggleListeners # {} /\ linkListeners # {}

\* the expanded class of item j and the aria-expanded of its toggle are the
\* same before and after the step
ItemUnchanged(j) ==
    /\ (j \in expanded') <=> (j \in expanded)
    /\ \A t \in MenuToggles : Closest[t] = j => toggleAria'[t] = toggleAria[t]

\* C14: a toggle click on menu item X changes the expanded class and the
\* aria-expanded only of X and of the items at X's nesting level; items at
\* every other level are left unchanged.
C14_OnlySameLevelChanges ==
    [][\A t \in MenuToggles :
          (ToggleClick(t) /\ Closest[t] # 0) =>
              \A j \in MenuItems \ SameLevel(Closest[t]) :
                  ItemUnchanged(j)]_vars

\* C15: a click on the placeholder parent link of a menu item without a toggle
\* of its own changes no state, and neither does a click on a toggle without
\* an enclosing menu item.
C15_NoOwnToggleNoChange ==
    Finished =>
        /\ \A i \in linkListeners :
               OwnToggle(i) = 0 =>
                   LinkHandler(i, expanded, toggleAria)
                       = [expanded |-> expanded, aria |-> toggleAria]
        /\ \A t \in toggleListeners :
               Closest[t] = 0 =>
                   ToggleHandler(t, expanded, toggleAria)
                       = [expanded |-> expanded, aria |-> toggleAria]

\* C16: mobile-nav events leave the submenus and the sticky header unchanged,
\* submenu events leave the mobile nav and the sticky header unchanged, and
\* handleStickyHeader leaves the mobile nav and the submenus unchanged.
C16_FeaturesIndependent ==
    [][/\ (OpenClick \/ CloseClick \/ OverlayClick
             \/ \E key \in Keys : Keydown(key))
          => UNCHANGED <<expanded, toggleAria, headerClass, styleHeight,
                         headerStickyProp>>
       /\ ((\E t \in MenuToggles : ToggleClick(t))
             \/ (\E i \in MenuItems : ParentLinkClick(i)))
          => UNCHANGED <<bodyClass, openAria, headerClass, styleHeight,
                         headerStickyProp>>
       /\ (\E e \in StickyEvents : WindowEvent(e))
          => UNCHANGED <<bodyClass, openAria, expanded, toggleAria>>]_vars

C16_Witness ==
    /\ Finished /\ mnavOpen /\ mnavOverlay
    /\ MnavActive \notin bodyClass /\ ~lastOpen
    /\ expanded = {1, 2, 3} /\ StickyInactive \in headerClass

\* C17: when the open trigger exists, its aria-expanded is "true" iff the body
\* carries mnav-active.
C17_OpenAriaMirrorsFlag ==
    mnavOpen => ((openAria = "true") <=> (MnavActive \in bodyClass))

C17_Witness ==
    /\ Finished /\ mnavOpen /\ ~mnavClose /\ ~mnavOverlay
    /\ openAria = "true" /\ MnavActive \in bodyClass

\* C18: the header never carries sticky-active and sticky-inactive together,
\* and sticky-inactive appears only in a step from a state with sticky-active.
C18_InactiveOnlyAfterActive ==
    [][/\ ~(StickyActive \in headerClass' /\ StickyInactive \in headerClass')
       /\ (StickyInactive \notin headerClass
             /\ StickyInactive \in headerClass')
          => StickyActive \in headerClass]_vars

C18_Witness ==
    /\ StickyBound /\ StickyInactive \in headerClass
    /\ scrollPending /\ pageYOffset > headerStickyProp

----------------------------------------------------------------------------
\* Clicks on visible menu items only

\* every menu item enclosing item i is expanded
Visible(i) == \A a \in MenuItems : Inside(i, a) => a \in expanded

\* a toggle outside every menu item counts as visible
VisibleToggle(t) == Closest[t] # 0 => Visible(Closest[t])

NextVisible ==
    \/ BindMobileNav
    \/ BindSubmenu
    \/ BindKeydown
    \/ InitSticky
    \/ OpenClick
    \/ CloseClick
    \/ OverlayClick
    \/ \E key \in Keys : Keydown(key)
    \/ \E t \in MenuToggles : VisibleToggle(t) /\ ToggleClick(t)
    \/ \E i \in MenuItems : Visible(i) /\ ParentLinkClick(i)
    \/ \E y \in 0..MaxScroll : Scroll(y)
    \/ \E eventType \in {"resize", "scroll", "load"} : WindowEvent(eventType)

SpecVisible == Init /\ [][NextVisible]_vars

\* C19: when clicks go to visible menu items only, every expanded menu item
\* has all of its enclosing menu items expanded.
C19_ExpandedImpliesVisible == \A i \in expanded : Visible(i)

====
